---- MODULE Spec2Model ----
(***************************************************************************)
(* A model of the trading gateway's core: the auto-sell background loop    *)
(* (app/workers/auto_sell.py), the brokerage client's header resolution    *)
(* and order payload (app/services/kotak.py) and the token table           *)
(* (app/token_store.py).                                                   *)
(*                                                                         *)
(* Conventions.  A Python value is a record [t, n, s]: t is "none", "num"  *)
(* or "str".  Prices and the threshold y are floats in the code; here they *)
(* are integers counting thousandths (mills), and every price of the model *)
(* is a multiple of 125 mills (1/8), which a binary float holds exactly,   *)
(* so that float addition is exact and round(x, 2) meets real ties.        *)
(* Time is counted in whole seconds.                                       *)
(***************************************************************************)
EXTENDS Integers, Sequences, FiniteSets, TLC

VARIABLES
    \* ---- static configuration (kotak.py module globals, read at import) ----
    KOTAK_AUTH_MODE, KOTAK_API_KEY, KOTAK_ACCESS_TOKEN, KOTAK_INTERNAL_KEY,
    KOTAK_CLIENT_CODE,
    authResult,      \* outcome of the last _auth_headers() call of a request
    \* ---- AutoSellWorker ----
    y, enabled,      \* self.y (mills), self.enabled
    pc,              \* where the loop task is: ready, fetching, placing, sleeping
    sleepLeft,       \* seconds left of the current asyncio.sleep
    callTicks,       \* seconds the pending outbound call has been in flight
    payload,         \* the positions payload of the last successful fetch
    positions,       \* the loop's local list `positions`
    idx,             \* how many elements of positions the for loop has consumed
    iterEnabled,     \* history: self.enabled when the iteration started
    iterY,           \* history: self.y when the iteration started
    iterErr,         \* history: the iteration ended in the except branch
    iterFetches,     \* history: get_positions requests sent in this iteration
    iterOrders,      \* history: wire payloads posted in this iteration, in order
    iterDeltas,      \* history: self.y as read when each of those was priced
    lastOrders,      \* history: the orders of the previous iteration, kept while this
                     \* iteration can be compared with it (both enabled and free of
                     \* errors, the same payload fetched, no configuration write since
                     \* the previous one started); NotComparable otherwise
    slept,           \* history: seconds slept since the iteration ended
    lastWrite,       \* history: the arguments of the last update_config call
    writeSeen,       \* history: the oldest configuration write no iteration start has
                     \* read yet: "none", made while the loop slept ("asleep"), made
                     \* during an iteration ("busy"), and that iteration then lasted at
                     \* least one more second ("late")
    \* ---- TokenStore ----
    tokens,          \* TokenStore._tokens: name -> entry or NoEntry
    lock,            \* TokenStore._lock: the holder, or Free
    now,             \* time.time()
    spc,             \* each caller's position in its TokenStore call
    call,            \* each caller's current call: op, name, value, expiry
    held,            \* get_token's local `token`
    ret,             \* each caller's last returned value
    fresh,           \* history: the last default-expiry set with no time elapsed since
    snap,            \* the dict all_tokens returned to a caller that keeps it
    \* ---- KotakClient and the request handlers of main.py ----
    KOTAK_BASE_URL,  \* os.getenv("BASE_URL", "").rstrip("/")
    client,          \* main.py's k = KotakClient(): "unbuilt", "serving" or "failed"
    optPaths,        \* the optional PATH_* settings that are not empty
    api              \* the last request handled: route, brokerage answer, outcome

authVars == <<KOTAK_AUTH_MODE, KOTAK_API_KEY, KOTAK_ACCESS_TOKEN, KOTAK_INTERNAL_KEY,
              KOTAK_CLIENT_CODE>>
workerVars == <<y, enabled, pc, sleepLeft, callTicks, payload, positions, idx,
                iterEnabled, iterY, iterErr, iterFetches, iterOrders, iterDeltas,
                lastOrders, slept, lastWrite, writeSeen>>
storeVars == <<tokens, lock, now, spc, call, held, ret, fresh, snap>>
apiVars == <<KOTAK_BASE_URL, client, optPaths, api>>
vars == <<authVars, authResult, workerVars, storeVars, apiVars>>

-----------------------------------------------------------------------------
(* Python values *)

None == [t |-> "none", n |-> 0, s |-> ""]
Num(k) == [t |-> "num", n |-> k, s |-> ""]
Str(x) == [t |-> "str", n |-> 0, s |-> x]

\* An exception of class exc; status and value are the HTTPException's status_code
\* and detail.
Raised(exc, status, value) == [exc |-> exc, status |-> status, value |-> value, ok |-> FALSE]
Returns(status, value) == [exc |-> "", status |-> status, value |-> value, ok |-> TRUE]

\* float(s) for the strings of the model that hold a number.
FloatOf == [s \in {"100"} |-> 100]

\* float(v) for v an int, a float or a str: the number, or a ValueError.
ToFloat(v) ==
    IF v.t = "num" THEN Returns(0, Num(v.n))
    ELSE IF v.s \in DOMAIN FloatOf THEN Returns(0, Num(FloatOf[v.s]))
    ELSE Raised("ValueError", 0, v)

\* Python truthiness of None, a number or a string.
Truthy(v) == (v.t = "num" /\ v.n # 0) \/ (v.t = "str" /\ v.s # "")

\* Python `a or b`.
Or(a, b) == IF Truthy(a) THEN a ELSE b

-----------------------------------------------------------------------------
(* kotak.py: header resolution *)

\* The values a credential of the model can take; "" is "not set".
Credentials == {"", "k1", "k2"}
ClientCodes == {"", "Y1P0E"}
\* KOTAK_AUTH_MODE after .lower(): the three supported modes and one that is not.
AuthModes == {"apikey", "bearer", "internal", "oauth"}

\* One header: its name, and its value as scheme + credential ("Bearer " + token).
Header(name, scheme, value) == [value |-> value, name |-> name, scheme |-> scheme]

BaseHeaders == {Header("accept", "", "application/json"),
                Header("content-type", "", "application/json")}

\* raise HTTPException(status_code=..., detail=...)
Raise(status, detail) == [status |-> status, ok |-> FALSE, detail |-> detail, headers |-> {}]
Headers(h) == [status |-> 0, ok |-> TRUE, detail |-> "", headers |-> h]

ClientCodeHeader(code) == IF code # "" THEN {Header("x-client-code", "", code)} ELSE {}

\* Mutant of AuthHeaders: every configured credential is sent, whatever the mode.
AuthHeadersAllConfigured(mode, apiKey, accessToken, internalKey, clientCode) ==
    IF mode \notin {"apikey", "bearer", "internal"}
    THEN Raise(500, "Unknown KOTAK_AUTH_MODE")
    ELSE IF (mode = "apikey" /\ apiKey = "") \/ (mode = "bearer" /\ accessToken = "")
            \/ (mode = "internal" /\ internalKey = "")
    THEN Raise(500, "credential not set")
    ELSE Headers(BaseHeaders
                 \cup (IF apiKey # "" THEN {Header("apikey", "", apiKey)} ELSE {})
                 \cup (IF accessToken # "" THEN {Header("authorization", "Bearer", accessToken)} ELSE {})
                 \cup (IF internalKey # "" THEN {Header("Internal-Key", "", internalKey)} ELSE {})
                 \cup ClientCodeHeader(clientCode))

\* KotakClient._auth_headers
AuthHeaders(mode, apiKey, accessToken, internalKey, clientCode) ==
    IF mode = "apikey"
    THEN IF apiKey = ""
         THEN Raise(500, "KOTAK_API_KEY not set but KOTAK_AUTH_MODE=apikey")
         ELSE Headers(BaseHeaders \cup {Header("apikey", "", apiKey)}
                      \cup ClientCodeHeader(clientCode))
    ELSE IF mode = "bearer"
    THEN IF accessToken = ""
         THEN Raise(500, "KOTAK_ACCESS_TOKEN not set but KOTAK_AUTH_MODE=bearer")
         ELSE Headers(BaseHeaders \cup {Header("authorization", "Bearer", accessToken)}
                      \cup ClientCodeHeader(clientCode))
    ELSE IF mode = "internal"
    THEN IF internalKey = ""
         THEN Raise(500, "KOTAK_INTERNAL_KEY not set but KOTAK_AUTH_MODE=internal")
         ELSE Headers(BaseHeaders \cup {Header("Internal-Key", "", internalKey)}
                      \cup ClientCodeHeader(clientCode))
    ELSE Raise(500, "Unknown KOTAK_AUTH_MODE")

\* _auth_headers() on the process's configuration.
CurrentAuth == AuthHeaders(KOTAK_AUTH_MODE, KOTAK_API_KEY, KOTAK_ACCESS_TOKEN,
                           KOTAK_INTERNAL_KEY, KOTAK_CLIENT_CODE)

\* The values of BASE_URL in the model: not set, or the gateway's URL.
BaseUrls == {"", "https://gw"}

\* The modes _auth_headers has a branch for.
KnownModes == {"apikey", "bearer", "internal"}

\* Mutant of Constructs: the constructor also refuses a mode it has no branch for.
ConstructsKnownModeOnly(baseUrl, mode) == baseUrl # "" /\ mode \in KnownModes

\* KotakClient.__init__ returns a client: `if not KOTAK_BASE_URL: raise RuntimeError`
\* is its only test.
Constructs(baseUrl, mode) == baseUrl # ""

\* One element of the list _attempts returns: ("tag", {headers}) carrying the
\* credential under header `name`, with the client code added by the final loop.
Attempt(tag, name, scheme, credential, clientCode) ==
    [headers |-> BaseHeaders \cup {Header(name, scheme, credential)}
                 \cup ClientCodeHeader(clientCode),
     mode |-> tag]

\* Mutant of Attempts: the API key is tried under the apikey header only.
AttemptsOnePerCredential(apiKey, accessToken, internalKey, clientCode) ==
    (IF accessToken # ""
     THEN <<Attempt("bearer", "authorization", "Bearer", accessToken, clientCode)>> ELSE <<>>)
    \o (IF apiKey # "" THEN <<Attempt("apikey", "apikey", "", apiKey, clientCode)>> ELSE <<>>)
    \o (IF internalKey # ""
        THEN <<Attempt("Internal-Key", "Internal-Key", "", internalKey, clientCode)>> ELSE <<>>)

\* KotakClient._attempts
Attempts(apiKey, accessToken, internalKey, clientCode) ==
    (IF accessToken # ""
     THEN <<Attempt("bearer", "authorization", "Bearer", accessToken, clientCode)>> ELSE <<>>)
    \o (IF apiKey # ""
        THEN <<Attempt("apikey", "apikey", "", apiKey, clientCode),
               Attempt("x-api-key", "x-api-key", "", apiKey, clientCode)>>
        ELSE <<>>)
    \o (IF internalKey # ""
        THEN <<Attempt("Internal-Key", "Internal-Key", "", internalKey, clientCode)>> ELSE <<>>)

\* No header resolution has run yet.
NoAuthResult == [status |-> 0, ok |-> FALSE, detail |-> "", headers |-> {}]

-----------------------------------------------------------------------------
(* kotak.py: the order payload; auto_sell.py: one position *)

\* dict.get(key) and dict.get(key, default) on a dict held as a function.
Get(d, key) == IF key \in DOMAIN d THEN d[key] ELSE None
GetOr(d, key, default) == IF key \in DOMAIN d THEN d[key] ELSE default

WireKeys == {"symbol", "exchange", "productType", "transactionType", "quantity", "price",
             "orderType", "validity", "disclosedQuantity", "triggerPrice", "tag"}

\* place_order: the eleven keys before the None-valued ones are dropped.
RawPayload(src) ==
    [k \in WireKeys |->
        CASE k = "symbol" -> Get(src, "symbol")
          [] k = "exchange" -> Get(src, "exchange")
          [] k = "productType" -> Get(src, "product")
          [] k = "transactionType" -> Or(Get(src, "transaction_type"), Get(src, "side"))
          [] k = "quantity" -> Or(Get(src, "quantity"), Get(src, "qty"))
          [] k = "price" -> Get(src, "price")
          [] k = "orderType" -> Get(src, "order_type")
          [] k = "validity" -> Get(src, "validity")
          [] k = "disclosedQuantity" -> GetOr(src, "disclosed_quantity", Num(0))
          [] k = "triggerPrice" -> Get(src, "trigger_price")
          [] OTHER -> Get(src, "tag")]

\* place_order: the JSON body posted to PATH_PLACE_ORDER.
WirePayload(src) ==
    LET raw == RawPayload(src)
    IN  [k \in {w \in WireKeys : raw[w] # None} |-> raw[k]]

\* Python round(x, 2) of a float holding x mills exactly: to the nearest 10 mills,
\* a tie to the even hundredth.
Round2(x) ==
    LET q == x \div 10
        r == x % 10
    IN  IF r < 5 THEN 10 * q
        ELSE IF r > 5 THEN 10 * (q + 1)
        ELSE IF q % 2 = 0 THEN 10 * q ELSE 10 * (q + 1)

\* Mutant of TargetSell: the price is cut to 2 decimals, not rounded.
TargetSellTruncated(buy_price, delta) == 10 * ((buy_price + delta) \div 10)

\* round(float(buy_price) + float(self.y), 2)
TargetSell(buy_price, delta) == Round2(buy_price + delta)

IsDict(p) == "t" \notin DOMAIN p

\* symbol = p.get("symbol") or p.get("tradingsymbol")
PosSymbol(p) == Or(Get(p, "symbol"), Get(p, "tradingsymbol"))
\* qty = p.get("qty") or p.get("quantity") or 0
PosQty(p) == Or(Or(Get(p, "qty"), Get(p, "quantity")), Num(0))
\* buy_price = p.get("buy_price") or p.get("avgPrice") or p.get("avg_buy_price")
PosBuyPrice(p) == Or(Or(Get(p, "buy_price"), Get(p, "avgPrice")), Get(p, "avg_buy_price"))

\* if not symbol or not qty or not buy_price: continue
Skipped(p) == ~Truthy(PosSymbol(p)) \/ ~Truthy(PosQty(p)) \/ ~Truthy(PosBuyPrice(p))

\* p.get on a non-dict, float(buy_price) or int(qty) on a non-number: an exception.
Raises(p) == ~IsDict(p) \/ (~Skipped(p) /\ (PosBuyPrice(p).t # "num" \/ PosQty(p).t # "num"))

\* The keyword arguments of the loop's place_order call for position p, with self.y = delta.
OrderKwargs(p, delta) ==
    [symbol |-> PosSymbol(p), side |-> Str("SELL"), qty |-> Num(PosQty(p).n),
     order_type |-> Str("LIMIT"), price |-> Num(TargetSell(PosBuyPrice(p).n, delta))]

\* The positions of the model.
PosTCS == [symbol |-> Str("TCS"), qty |-> Num(10), avgPrice |-> Num(100000)]
PosINFY == [buy_price |-> Num(50125), tradingsymbol |-> Str("INFY"), quantity |-> Num(3)]
PosFlat == [symbol |-> Str("TCS"), qty |-> Num(0), avgPrice |-> Num(100000)]
PosNoPrice == [symbol |-> Str("SBIN"), qty |-> Num(5)]
PosBad == Str("oops")
PositionKinds == {PosTCS, PosINFY, PosFlat, PosNoPrice, PosBad}

\* The longest positions list the brokerage returns in the model.
MaxPositions == 2

PositionLists == UNION {[1..n -> PositionKinds] : n \in 0..MaxPositions}

\* A JSON body: a bare list, an object with the list under "data", an object
\* without "data", a scalar, or an object whose "data" is a scalar.
Payloads == {[shape |-> sh, items |-> l] : sh \in {"list", "data"}, l \in PositionLists}
            \cup {[shape |-> sh, items |-> <<>>] : sh \in {"object", "scalar", "datascalar"}}

NoPayload == [shape |-> "none", items |-> <<>>]

\* Mutant of NormalizePositions: only a bare list is accepted.
NormalizePositionsBareListOnly(body) ==
    IF body.shape = "list" THEN body.items ELSE <<>>

\* run: `positions` after the two isinstance checks.
NormalizePositions(body) ==
    IF body.shape \in {"list", "data"} THEN body.items ELSE <<>>

-----------------------------------------------------------------------------
(* kotak.py: responses *)

\* An outbound call's outcome: no response within the timeout (httpx raises), or
\* a response with a status, a body that parses as JSON or does not, and the body.
Timeout == [status |-> 0, body |-> NoPayload, kind |-> "timeout", json |-> FALSE]
Http(status, json, body) == [status |-> status, body |-> body, kind |-> "http", json |-> json]

ErrorBody == [shape |-> "error", items |-> <<>>]
OrderAck == [shape |-> "ack", items |-> <<>>]

\* The message, error and errors fields an error body can hold: each absent, null,
\* empty or a text of its own (the field's name).
ErrorFields ==
    UNION {{[k \in ks |-> CASE v[k] = "null" -> None
                              [] v[k] = "empty" -> Str("")
                              [] OTHER -> Str(k)] :
               v \in [ks -> {"null", "empty", "text"}]} :
           ks \in SUBSET {"message", "error", "errors"}}

\* A JSON object body with such fields.
ErrorObject(f) == [shape |-> "errobj", items |-> <<>>, fields |-> f]

\* The JSON bodies that parse to a dict: the others parse to a list or a scalar.
IsJsonObject(body) ==
    \/ body.shape \in {"data", "object", "datascalar", "error", "ack", "errobj"}
    \/ body.shape = "funds" /\ IsDict(body.json)

\* The message, error and errors fields of a dict body; ErrorBody is
\* {"message": "fail"}, the other dicts of the model have none of the three.
Fields(body) ==
    IF body.shape = "errobj" THEN body.fields
    ELSE IF body.shape = "error" THEN [k \in {"message"} |-> Str("fail")]
    ELSE [k \in {} |-> None]

\* data.get("message") or data.get("error") or data.get("errors") or data
Detail(body) ==
    Or(Or(Or(Get(Fields(body), "message"), Get(Fields(body), "error")),
          Get(Fields(body), "errors")),
       body)

\* httpx.Response.is_success
IsSuccess(status) == status >= 200 /\ status <= 299

\* KotakClient._handle_response: the parsed body, an HTTPException, or the
\* AttributeError of data.get on a body that parsed to a list or a scalar.
HandleResponse(resp) ==
    IF ~resp.json
    THEN Raised("HTTPException", resp.status, resp.body)
    ELSE IF IsSuccess(resp.status)
    THEN Returns(resp.status, resp.body)
    ELSE IF ~IsJsonObject(resp.body)
    THEN Raised("AttributeError", 0, resp.body)
    ELSE Raised("HTTPException", resp.status, Detail(resp.body))

\* `await self._client.get/post(...)` followed by _handle_response.
CallOutcome(resp) ==
    IF resp.kind = "timeout"
    THEN Raised("TimeoutException", 0, NoPayload)
    ELSE HandleResponse(resp)

\* What the brokerage answers to GET PATH_POSITIONS in the model.
FetchResponses == {Timeout, Http(500, TRUE, ErrorBody), Http(200, FALSE, NoPayload)}
                  \cup {Http(200, TRUE, b) : b \in Payloads}

\* What it answers to POST PATH_PLACE_ORDER.
PlaceResponses == {Timeout, Http(500, TRUE, ErrorBody), Http(200, TRUE, OrderAck)}

-----------------------------------------------------------------------------
(* auto_sell.py: AutoSellWorker *)

\* __init__ defaults: y_default = 2.0 (in mills), interval_sec = 5.
y_default == 2000
interval_sec == 5

\* Mutant of enabled_default: the worker is constructed enabled.
EnabledDefaultOn == TRUE

\* __init__'s enabled_default = False, which main.py's AutoSellWorker(k) keeps.
enabled_default == FALSE

\* The thresholds a configuration write carries in the model (mills).
Thresholds == {2000, 375}

\* The longest an outbound call stays in flight, in seconds (at most the
\* client's 15 s timeout).
MaxCallTicks == 2

\* No previous iteration to compare with.
NotComparable == <<[comparable |-> None]>>

\* No update_config call yet.
NoWrite == [y |-> y_default, enabled |-> FALSE, written |-> FALSE, rejected |-> FALSE,
            everOn |-> FALSE]

\* The for loop from element i + 1 on, up to its next suspension: the list is
\* exhausted ("done"), an element raises ("raise"), or an order is to be placed
\* for element idx ("order").
RECURSIVE Scan(_, _)
Scan(ps, i) ==
    IF i >= Len(ps) THEN [idx |-> Len(ps), kind |-> "done"]
    ELSE IF Raises(ps[i + 1]) THEN [idx |-> i + 1, kind |-> "raise"]
    ELSE IF Skipped(ps[i + 1]) THEN Scan(ps, i + 1)
    ELSE [idx |-> i + 1, kind |-> "order"]

\* Mutant of SleepAfter: the except branch retries at once.
SleepAfterNoBackoff(err) == IF err THEN 0 ELSE interval_sec

\* The argument of the asyncio.sleep that ends an iteration (line 47, or line 50
\* in the except branch).
SleepAfter(err) == interval_sec

\* The iteration ends: normally (err = FALSE) or in the except branch.
EndIteration(err) ==
    /\ pc' = "sleeping"
    /\ sleepLeft' = SleepAfter(err)
    /\ slept' = 0
    /\ callTicks' = 0
    /\ iterErr' = err

\* The threshold an order is priced with: self.y, read when the order is priced.
PricingDelta == y

\* Mutant of Continue: the orders of the next two positions to sell are posted
\* together, the second without waiting for the first one's response.
ContinueTwoAtOnce(ps, i) ==
    LET r == Scan(ps, i)
        r2 == IF r.kind = "order" THEN Scan(ps, r.idx) ELSE r
        one == <<WirePayload(OrderKwargs(ps[r.idx], PricingDelta))>>
        two == IF r2.kind = "order"
               THEN <<WirePayload(OrderKwargs(ps[r2.idx], PricingDelta))>> ELSE <<>>
    IN  IF r.kind = "order" /\ CurrentAuth.ok
        THEN /\ idx' = IF r2.kind = "order" THEN r2.idx ELSE r.idx
             /\ iterOrders' = iterOrders \o one \o two
             /\ iterDeltas' = iterDeltas \o [k \in 1..(1 + Len(two)) |-> y]
             /\ pc' = "placing"
             /\ callTicks' = 0
             /\ UNCHANGED <<sleepLeft, slept, iterErr>>
        ELSE /\ idx' = r.idx
             /\ EndIteration(r.kind # "done")
             /\ UNCHANGED <<iterOrders, iterDeltas>>

\* The for loop runs on from element i + 1 of ps until it suspends in place_order
\* or the iteration ends.
Continue(ps, i) ==
    LET r == Scan(ps, i)
    IN  /\ idx' = r.idx
        /\ IF r.kind = "order" /\ CurrentAuth.ok
           THEN /\ iterOrders' = Append(iterOrders, WirePayload(OrderKwargs(ps[r.idx], PricingDelta)))
                /\ iterDeltas' = Append(iterDeltas, y)
                /\ pc' = "placing"
                /\ callTicks' = 0
                /\ UNCHANGED <<sleepLeft, slept, iterErr>>
           ELSE /\ EndIteration(r.kind # "done")
                /\ UNCHANGED <<iterOrders, iterDeltas>>

\* Mutant of RunsWhen: the loop ignores the enabled flag.
RunsAlways(flag) == TRUE

\* if self.enabled:
RunsWhen(flag) == flag

\* The top of `while True`: the task's first run, or the return of asyncio.sleep.
IterStart ==
    /\ pc = "ready" \/ (pc = "sleeping" /\ sleepLeft = 0)
    /\ iterEnabled' = enabled
    /\ iterY' = y
    /\ lastOrders' = IF pc = "sleeping" /\ iterEnabled /\ ~iterErr /\ writeSeen = "none"
                   THEN iterOrders ELSE NotComparable
    /\ iterOrders' = <<>>
    /\ iterDeltas' = <<>>
    /\ writeSeen' = "none"
    /\ idx' = 0
    /\ positions' = <<>>
    /\ IF ~RunsWhen(enabled)
       THEN /\ EndIteration(FALSE)
            /\ iterFetches' = 0
       ELSE IF ~CurrentAuth.ok
       THEN /\ EndIteration(TRUE)
            /\ iterFetches' = 0
       ELSE /\ pc' = "fetching"
            /\ callTicks' = 0
            /\ iterFetches' = 1
            /\ iterErr' = FALSE
            /\ UNCHANGED <<sleepLeft, slept>>
    /\ UNCHANGED <<y, enabled, payload, lastWrite>>
    /\ UNCHANGED <<authVars, authResult, storeVars>>
    /\ UNCHANGED apiVars

\* get_positions returns or raises, and the loop runs on to its next suspension.
FetchReturn(resp) ==
    /\ pc = "fetching"
    /\ LET out == CallOutcome(resp)
       IN  IF out.ok
           THEN /\ payload' = out.value
                /\ lastOrders' = IF out.value = payload THEN lastOrders ELSE NotComparable
                /\ positions' = NormalizePositions(out.value)
                /\ Continue(NormalizePositions(out.value), 0)
           ELSE /\ EndIteration(TRUE)
                /\ UNCHANGED <<payload, lastOrders, positions, idx, iterOrders, iterDeltas>>
    /\ UNCHANGED <<y, enabled, iterEnabled, iterY, iterFetches, lastWrite, writeSeen>>
    /\ UNCHANGED <<authVars, authResult, storeVars>>
    /\ UNCHANGED apiVars

\* Mutant of PlaceReturn: a failed order is passed over and the loop goes on with
\* the next position.
PlaceReturnGoesOn(resp) ==
    /\ pc = "placing"
    /\ Continue(positions, idx)
    /\ UNCHANGED <<y, enabled, payload, positions, iterEnabled, iterY, iterFetches,
                   lastOrders, lastWrite, writeSeen>>
    /\ UNCHANGED <<authVars, authResult, storeVars>>
    /\ UNCHANGED apiVars

\* place_order returns or raises, and the loop runs on to its next suspension.
PlaceReturn(resp) ==
    /\ pc = "placing"
    /\ IF CallOutcome(resp).ok
       THEN Continue(positions, idx)
       ELSE /\ EndIteration(TRUE)
            /\ UNCHANGED <<idx, iterOrders, iterDeltas>>
    /\ UNCHANGED <<y, enabled, payload, positions, iterEnabled, iterY, iterFetches,
                   lastOrders, lastWrite, writeSeen>>
    /\ UNCHANGED <<authVars, authResult, storeVars>>
    /\ UNCHANGED apiVars

\* One second passes while the loop sleeps or waits for a response.
WorkerTick ==
    /\ \/ /\ pc = "sleeping" /\ sleepLeft > 0
          /\ sleepLeft' = sleepLeft - 1
          /\ slept' = slept + 1
          /\ UNCHANGED callTicks
       \/ /\ pc \in {"fetching", "placing"} /\ callTicks < MaxCallTicks
          /\ callTicks' = callTicks + 1
          /\ UNCHANGED <<sleepLeft, slept>>
    /\ writeSeen' = IF writeSeen = "busy" /\ pc # "sleeping" THEN "late" ELSE writeSeen
    /\ UNCHANGED <<y, enabled, pc, payload, positions, idx, iterEnabled, iterY, iterErr,
                   iterFetches, iterOrders, iterDeltas, lastOrders, lastWrite>>
    /\ UNCHANGED <<authVars, authResult, storeVars>>
    /\ UNCHANGED apiVars

\* Mutant of ConfigAfter: self.enabled is assigned before float(y) is evaluated.
ConfigAfterEnabledFirst(newY, newEnabled) ==
    IF ToFloat(newY).ok THEN [y |-> ToFloat(newY).value.n, enabled |-> newEnabled]
    ELSE [y |-> y, enabled |-> newEnabled]

\* Mutant of ConfigAfter: only the threshold is written.
ConfigAfterThresholdOnly(newY, newEnabled) ==
    IF ToFloat(newY).ok THEN [y |-> ToFloat(newY).value.n, enabled |-> enabled]
    ELSE [y |-> y, enabled |-> enabled]

\* update_config: self.y = float(y); self.enabled = bool(enabled)
\* float(y) raises before either assignment is made.
ConfigAfter(newY, newEnabled) ==
    IF ToFloat(newY).ok THEN [y |-> ToFloat(newY).value.n, enabled |-> newEnabled]
    ELSE [y |-> y, enabled |-> enabled]

\* worker.update_config(y=newY, enabled=newEnabled), as POST /auto_sell/config
\* calls it; lastWrite keeps the arguments of the last call that returned, whether
\* the last call raised, and whether a call with enabled = True has returned.
UpdateConfig(newY, newEnabled) ==
    /\ y' = ConfigAfter(newY, newEnabled).y
    /\ enabled' = ConfigAfter(newY, newEnabled).enabled
    /\ IF ToFloat(newY).ok
       THEN /\ lastWrite' = [y |-> ToFloat(newY).value.n, enabled |-> newEnabled,
                             written |-> TRUE, rejected |-> FALSE,
                             everOn |-> lastWrite.everOn \/ newEnabled]
            /\ writeSeen' = IF writeSeen # "none" THEN writeSeen
                            ELSE IF pc \in {"fetching", "placing"} THEN "busy" ELSE "asleep"
            /\ lastOrders' = NotComparable
       ELSE /\ lastWrite' = [lastWrite EXCEPT !.rejected = TRUE]
            /\ UNCHANGED <<writeSeen, lastOrders>>
    /\ UNCHANGED <<pc, sleepLeft, callTicks, payload, positions, idx, iterEnabled, iterY,
                   iterErr, iterFetches, iterOrders, iterDeltas, slept>>
    /\ UNCHANGED <<authVars, authResult, storeVars>>
    /\ UNCHANGED apiVars

-----------------------------------------------------------------------------
(* token_store.py: TokenStore *)

TokenNames == {"access_token", "sid", "trade_token"}
TokenValues == {Str("a"), Str("b")}
Callers == {"c1", "c2"}

\* The values time.time() takes in the model, in seconds.
Instants == {1000, 1001, 4600}
\* The expiry argument of set_token: omitted (None), 0, or a timestamp.
ExpiryArgs == {None, Num(0), Num(1001)}

\* set_token's default lifetime: time.time() + 3600.
default_ttl == 3600

NoEntry == [value |-> None, present |-> FALSE, expiry |-> 0]
Entry(value, expiry) == [value |-> value, present |-> TRUE, expiry |-> expiry]

Free == "free"
NoCall == [value |-> None, name |-> "", expiry |-> None, op |-> "none"]
NoFresh == [value |-> None, name |-> "", over |-> NoEntry]
EmptyTable == [n \in TokenNames |-> NoEntry]
NoRet == [value |-> None, name |-> "", expiry |-> None, op |-> "none", caller |-> "",
          at |-> 0, entry |-> NoEntry, table |-> EmptyTable]

\* Mutant of StoredExpiry: the default lifetime is subtracted.
StoredExpiryPast(expiry, t) == Or(expiry, Num(t - default_ttl)).n

\* expiry or (time.time() + 3600)
StoredExpiry(expiry, t) == Or(expiry, Num(t + default_ttl)).n

\* Mutant of Expired: an entry is expired from its expiry second on.
ExpiredFromExpiry(entry, t) == entry.expiry # 0 /\ entry.expiry <= t

\* token["expiry"] and token["expiry"] < time.time()
Expired(entry, t) == entry.expiry # 0 /\ entry.expiry < t

\* get_token's result for the entry found under the name (NoEntry: none found).
GetTokenResult(entry, t) ==
    IF ~entry.present THEN None
    ELSE IF Expired(entry, t) THEN None
    ELSE entry.value

\* cls._tokens[name] = {"value": value, "expiry": expiry or (time.time() + 3600)}
TableAfterSet(table, name, value, expiry, t) ==
    [table EXCEPT ![name] = Entry(value, StoredExpiry(expiry, t))]

\* What a set_token leaves in fresh: the pair stored and the entry it replaced,
\* when the expiry was omitted.
FreshAfterSet(name, value, expiry) ==
    IF expiry = None THEN [value |-> value, name |-> name, over |-> tokens[name]]
    ELSE NoFresh

\* A call's return: who called what with which arguments, the value returned
\* (get_token), the entry get_token found under the name, the copy returned
\* (all_tokens), and the time.time() of the call.
Returned(c, op, name, value, expiry, entry, table) ==
    [value |-> value, name |-> name, expiry |-> expiry, op |-> op, caller |-> c,
     at |-> now, entry |-> entry, table |-> table]

\* No dict returned by all_tokens is kept.
NoSnap == [table |-> EmptyTable, taken |-> FALSE, shared |-> {}]

\* cls._tokens.copy(): a new outer dict whose values are the entry dicts of the
\* table themselves; `shared` holds the names under which the copy and the table
\* still hold the same entry dict.
ShallowCopy(table) ==
    [table |-> table, taken |-> TRUE, shared |-> {n \in TokenNames : table[n].present}]

\* set_token binds the name to a new entry dict: a copy taken before keeps the
\* old one.
SnapAfterSet(name) == [snap EXCEPT !.shared = @ \ {name}]

\* The holder of the dict returned assigns to a field of one of its entries:
\* snapshot[name]["value"] = value, snapshot[name]["expiry"] = expiry.
SnapshotAssign(name, field, v) ==
    /\ snap.taken /\ snap.table[name].present
    /\ snap' = [snap EXCEPT !.table[name][field] = v]
    /\ tokens' = IF name \in snap.shared THEN [tokens EXCEPT ![name][field] = v] ELSE tokens
    /\ UNCHANGED <<lock, now, spc, call, held, ret, fresh>>
    /\ UNCHANGED <<authVars, authResult, workerVars>>
    /\ UNCHANGED apiVars

\* The holder removes a name from the dict returned, or binds a name to an entry
\* of its own: del snapshot[name], snapshot[name] = {...}.
SnapshotRebind(name, entry) ==
    /\ snap.taken
    /\ snap' = [snap EXCEPT !.table[name] = entry, !.shared = @ \ {name}]
    /\ UNCHANGED <<tokens, lock, now, spc, call, held, ret, fresh>>
    /\ UNCHANGED <<authVars, authResult, workerVars>>
    /\ UNCHANGED apiVars

\* ---- The handlers as the event loop runs them: the lock is free when a call
\* ---- starts, `async with` does not suspend, and the body holds no await.

\* await TokenStore.set_token(name, value, expiry)
SetToken(c, name, value, expiry) ==
    /\ lock = Free /\ spc[c] = "idle"
    /\ tokens' = TableAfterSet(tokens, name, value, expiry, now)
    /\ ret' = Returned(c, "set", name, value, expiry, NoEntry, EmptyTable)
    /\ fresh' = FreshAfterSet(name, value, expiry)
    /\ snap' = SnapAfterSet(name)
    /\ UNCHANGED <<lock, now, spc, call, held>>
    /\ UNCHANGED <<authVars, authResult, workerVars>>
    /\ UNCHANGED apiVars

\* Mutant of GetToken: an entry found expired is deleted from the table.
GetTokenSweeping(c, name) ==
    /\ lock = Free /\ spc[c] = "idle"
    /\ ret' = Returned(c, "get", name, GetTokenResult(tokens[name], now), None,
                       tokens[name], EmptyTable)
    /\ tokens' = IF tokens[name].present /\ Expired(tokens[name], now)
                 THEN [tokens EXCEPT ![name] = NoEntry] ELSE tokens
    /\ UNCHANGED <<lock, now, spc, call, held, fresh>>
    /\ UNCHANGED <<authVars, authResult, workerVars, snap>>
    /\ UNCHANGED apiVars

\* await TokenStore.get_token(name)
GetToken(c, name) ==
    /\ lock = Free /\ spc[c] = "idle"
    /\ ret' = Returned(c, "get", name, GetTokenResult(tokens[name], now), None,
                       tokens[name], EmptyTable)
    /\ UNCHANGED <<tokens, lock, now, spc, call, held, fresh>>
    /\ UNCHANGED <<authVars, authResult, workerVars, snap>>
    /\ UNCHANGED apiVars

\* await TokenStore.all_tokens(), by a caller that keeps the dict returned or
\* drops it after reading it.
AllTokens(c, keeps) ==
    /\ lock = Free /\ spc[c] = "idle"
    /\ ret' = Returned(c, "all", "", None, None, NoEntry, tokens)
    /\ snap' = IF keeps THEN ShallowCopy(tokens) ELSE snap
    /\ UNCHANGED <<tokens, lock, now, spc, call, held, fresh>>
    /\ UNCHANGED <<authVars, authResult, workerVars>>
    /\ UNCHANGED apiVars

\* time.time() moves on to a later instant.
StoreTick(t) ==
    /\ t > now
    /\ now' = t
    /\ fresh' = NoFresh
    /\ UNCHANGED <<tokens, lock, spc, call, held, ret>>
    /\ UNCHANGED <<authVars, authResult, workerVars, snap>>
    /\ UNCHANGED apiVars

\* ---- The same handlers step by step, as callers that can be preempted inside
\* ---- a call would run them.

\* The names and expiry arguments of the step-by-step callers.
LockNames == {"sid"}
LockExpiryArgs == {None, Num(1001)}

\* A caller enters set_token, get_token or all_tokens and reaches `async with`.
BeginCall(c, op, name, value, expiry) ==
    /\ spc[c] = "idle"
    /\ spc' = [spc EXCEPT ![c] = "waiting"]
    /\ call' = [call EXCEPT ![c] = [value |-> value, name |-> name, expiry |-> expiry,
                                     op |-> op]]
    /\ UNCHANGED <<tokens, lock, now, held, ret, fresh>>
    /\ UNCHANGED <<authVars, authResult, workerVars, snap>>
    /\ UNCHANGED apiVars

\* Mutant of CanAcquire: the lock is granted whoever holds it.
CanAcquireAlways(c) == TRUE

\* asyncio.Lock.acquire grants the lock only when nobody holds it.
CanAcquire(c) == lock = Free

\* async with cls._lock: entry
Acquire(c) ==
    /\ spc[c] = "waiting"
    /\ CanAcquire(c)
    /\ lock' = c
    /\ spc' = [spc EXCEPT ![c] = "locked"]
    /\ UNCHANGED <<tokens, now, call, held, ret, fresh>>
    /\ UNCHANGED <<authVars, authResult, workerVars, snap>>
    /\ UNCHANGED apiVars

\* set_token's body, and the lock's release.
SetWrite(c) ==
    /\ spc[c] = "locked" /\ call[c].op = "set"
    /\ tokens' = TableAfterSet(tokens, call[c].name, call[c].value, call[c].expiry, now)
    /\ ret' = Returned(c, "set", call[c].name, call[c].value, call[c].expiry, NoEntry,
                       EmptyTable)
    /\ fresh' = FreshAfterSet(call[c].name, call[c].value, call[c].expiry)
    /\ lock' = Free
    /\ spc' = [spc EXCEPT ![c] = "idle"]
    /\ call' = [call EXCEPT ![c] = NoCall]
    /\ snap' = SnapAfterSet(call[c].name)
    /\ UNCHANGED <<now, held>>
    /\ UNCHANGED <<authVars, authResult, workerVars>>
    /\ UNCHANGED apiVars

\* get_token: token = cls._tokens.get(name); `if not token: return None`.
GetRead(c) ==
    /\ spc[c] = "locked" /\ call[c].op = "get"
    /\ IF tokens[call[c].name].present
       THEN /\ held' = [held EXCEPT ![c] = tokens[call[c].name]]
            /\ spc' = [spc EXCEPT ![c] = "judging"]
            /\ UNCHANGED <<lock, call, ret>>
       ELSE /\ ret' = Returned(c, "get", call[c].name, None, None, NoEntry, EmptyTable)
            /\ lock' = Free
            /\ spc' = [spc EXCEPT ![c] = "idle"]
            /\ call' = [call EXCEPT ![c] = NoCall]
            /\ UNCHANGED held
    /\ UNCHANGED <<tokens, now, fresh>>
    /\ UNCHANGED <<authVars, authResult, workerVars, snap>>
    /\ UNCHANGED apiVars

\* get_token: the expiry test on the entry read, the return, the lock's release.
GetJudge(c) ==
    /\ spc[c] = "judging"
    /\ ret' = Returned(c, "get", call[c].name, GetTokenResult(held[c], now), None,
                       held[c], EmptyTable)
    /\ lock' = Free
    /\ spc' = [spc EXCEPT ![c] = "idle"]
    /\ call' = [call EXCEPT ![c] = NoCall]
    /\ held' = [held EXCEPT ![c] = NoEntry]
    /\ UNCHANGED <<tokens, now, fresh>>
    /\ UNCHANGED <<authVars, authResult, workerVars, snap>>
    /\ UNCHANGED apiVars

\* all_tokens' body, and the lock's release.
AllCopy(c) ==
    /\ spc[c] = "locked" /\ call[c].op = "all"
    /\ ret' = Returned(c, "all", "", None, None, NoEntry, tokens)
    /\ lock' = Free
    /\ spc' = [spc EXCEPT ![c] = "idle"]
    /\ call' = [call EXCEPT ![c] = NoCall]
    /\ UNCHANGED <<tokens, now, held, fresh>>
    /\ UNCHANGED <<authVars, authResult, workerVars, snap>>
    /\ UNCHANGED apiVars

-----------------------------------------------------------------------------
(* kotak.py: KotakClient's public methods; main.py: the request handlers *)

EmptyDict == [k \in {} |-> None]

\* The keys _extract_funds_value tries, in the order of its for loops.
Candidates == <<"available", "availableCash", "cash", "netAvailable", "netCash", "limit">>

\* k in d and isinstance(d[k], (int, float, str))
Matches(d, k) == k \in DOMAIN d /\ ~IsDict(d[k]) /\ d[k].t \in {"num", "str"}

\* The index of the candidate a for loop returns on in dict d; 0 when the loop
\* runs to its end.
FirstMatch(d) ==
    IF \E i \in 1..Len(Candidates) : Matches(d, Candidates[i])
    THEN CHOOSE i \in 1..Len(Candidates) :
            Matches(d, Candidates[i]) /\ \A j \in 1..(i - 1) : ~Matches(d, Candidates[j])
    ELSE 0

\* d = data.get(key) when isinstance(d, dict); a dict without keys stands for a
\* d that is absent or not a dict, whose for loop does not run.
SubDict(data, key) ==
    IF key \in DOMAIN data /\ IsDict(data[key]) THEN data[key] ELSE EmptyDict

\* raise HTTPException(status_code=500, detail=f"Unexpected funds payload: {data}")
UnexpectedFunds(data) == Raised("HTTPException", 500, data)

\* KotakClient._extract_funds_value on the parsed JSON: the three for loops in
\* turn, the first matching candidate converted by float(); a failed conversion
\* falls into `except Exception: pass` and the raise that follows.
ExtractFundsValue(data) ==
    IF ~IsDict(data)
    THEN IF data.t = "num" THEN Returns(0, Num(data.n)) ELSE UnexpectedFunds(data)
    ELSE LET locs == <<data, SubDict(data, "data"), SubDict(data, "limits")>>
             hits == {i \in 1..3 : FirstMatch(locs[i]) # 0}
         IN  IF hits = {}
             THEN UnexpectedFunds(data)
             ELSE LET i == CHOOSE h \in hits : \A g \in hits : h <= g
                      v == ToFloat(locs[i][Candidates[FirstMatch(locs[i])]])
                  IN  IF v.ok THEN v ELSE UnexpectedFunds(data)

\* A funds response body and the JSON it parses to.
FundsBody(json) == [shape |-> "funds", items |-> <<>>, json |-> json]

\* _extract_funds_value on a parsed body: the other dict bodies of the model hold
\* no candidate key, and no list is a number or a dict.
ExtractFunds(body) ==
    IF body.shape = "funds" THEN ExtractFundsValue(body.json) ELSE UnexpectedFunds(body)

\* The candidate fields one location holds in the model, amounts based on v: none,
\* one candidate, two of which the earlier in order wins, an earlier one that is
\* null or not a number, a numeric string, an unrelated key.
FundsAt(v) ==
    {EmptyDict,
     "available" :> Num(v),
     "cash" :> Num(v),
     "netCash" :> Num(v),
     ("cash" :> Num(v + 7)) @@ ("available" :> Num(v)),
     ("available" :> None) @@ ("cash" :> Num(v)),
     ("available" :> Str("abc")) @@ ("cash" :> Num(v)),
     "available" :> Str("abc"),
     "limit" :> Str("100"),
     "unrelated" :> Num(1)}

\* What a payload holds under `key`: nothing, a number, or a dict.
Nested(key, v) ==
    {EmptyDict} \cup
    {key :> x : x \in {Num(5), EmptyDict, "cash" :> Num(v), "unrelated" :> Num(1),
                       ("available" :> Str("abc")) @@ ("cash" :> Num(v))}}

\* The funds payloads of the model: objects with candidates at the top level
\* (100), under data (200) and under limits (300), a bare number, a bare string.
FundsPayloads ==
    {top @@ d @@ l : top \in FundsAt(100), d \in Nested("data", 200),
                     l \in Nested("limits", 300)}
    \cup {Num(100), Str("100")}

\* The optional PATH_* settings; an empty one turns its method into a no-op.
OptionalPaths == {"PATH_PNL", "PATH_EXPENSES", "PATH_CLOSE_ALL", "PATH_ORDERS_OPEN"}

\* KotakClient's public methods.
ClientOps == {"get_funds", "get_positions", "get_orders", "get_open_orders", "place_order",
              "get_day_profit", "get_day_expenses", "close_all_positions"}

\* `if PATH_PNL:`, `if PATH_EXPENSES:`, `if PATH_CLOSE_ALL:` ("": no such test).
NeededPath(op) ==
    CASE op = "get_day_profit" -> "PATH_PNL"
      [] op = "get_day_expenses" -> "PATH_EXPENSES"
      [] op = "close_all_positions" -> "PATH_CLOSE_ALL"
      [] OTHER -> ""

PyBool(b) == [t |-> "bool", n |-> IF b THEN 1 ELSE 0, s |-> ""]
\* {"brokerage": 0.0, "taxes": 0.0, "other": 0.0}
ZeroExpenses == [shape |-> "expenses", items |-> <<>>]

\* What a method returns when its optional path is empty.
Unconfigured(op) ==
    CASE op = "get_day_profit" -> Num(0)
      [] op = "get_day_expenses" -> ZeroExpenses
      [] OTHER -> PyBool(FALSE)

\* What a method makes of the body _handle_response returned.
Result(op, body) ==
    CASE op = "get_funds" -> ExtractFunds(body)
      [] op = "get_day_profit" -> Returns(0, Num(0))
      [] op = "get_day_expenses" -> Returns(0, ZeroExpenses)
      [] op = "close_all_positions" -> Returns(0, PyBool(TRUE))
      [] OTHER -> Returns(0, body)

\* Mutant of Requests: a request that failed is sent once more.
RequestsWithRetry(out) == IF out.ok THEN 1 ELSE 2

\* The outbound requests of one method call that has resolved its headers: every
\* path through every method holds exactly one `await self._client.get/post`,
\* whatever comes of it.
Requests(out) == 1

NoSrc == EmptyDict
NoWire == EmptyDict

\* Mutant of ClientCall: every method resolves its headers before it looks at its
\* path.
ClientCallHeadersFirst(op, src, resp) ==
    IF ~CurrentAuth.ok
    THEN [out |-> Raised("HTTPException", CurrentAuth.status, Str(CurrentAuth.detail)), sent |-> 0,
          wire |-> NoWire]
    ELSE IF NeededPath(op) # "" /\ NeededPath(op) \notin optPaths
    THEN [out |-> Returns(0, Unconfigured(op)), sent |-> 0, wire |-> NoWire]
    ELSE IF op = "place_order" /\ src = NoSrc
    THEN [out |-> Raised("HTTPException", 400, Str("Missing order payload")), sent |-> 0,
          wire |-> NoWire]
    ELSE LET handled == CallOutcome(resp)
         IN  [out |-> IF handled.ok THEN Result(op, handled.value) ELSE handled,
              sent |-> Requests(handled),
              wire |-> IF op = "place_order" THEN WirePayload(src) ELSE NoWire]

\* One call of a KotakClient method with order input src (place_order), answered
\* by resp: the number of requests sent, the JSON posted, and how the call ended.
ClientCall(op, src, resp) ==
    IF NeededPath(op) # "" /\ NeededPath(op) \notin optPaths
    THEN [out |-> Returns(0, Unconfigured(op)), sent |-> 0, wire |-> NoWire]
    ELSE IF ~CurrentAuth.ok
    THEN [out |-> Raised("HTTPException", CurrentAuth.status, Str(CurrentAuth.detail)), sent |-> 0,
          wire |-> NoWire]
    ELSE IF op = "place_order" /\ src = NoSrc
    THEN [out |-> Raised("HTTPException", 400, Str("Missing order payload")), sent |-> 0,
          wire |-> NoWire]
    ELSE LET handled == CallOutcome(resp)
         IN  [out |-> IF handled.ok THEN Result(op, handled.value) ELSE handled,
              sent |-> Requests(handled),
              wire |-> IF op = "place_order" THEN WirePayload(src) ELSE NoWire]

\* main.py's handlers that call KotakClient, and the method each calls.
Routes == {"/funds", "/profit", "/expenses", "/orders/open", "/orders/place",
           "/close_positions"}

RouteOp(route) ==
    CASE route = "/funds" -> "get_funds"
      [] route = "/profit" -> "get_day_profit"
      [] route = "/expenses" -> "get_day_expenses"
      [] route = "/orders/open" -> "get_open_orders"
      [] route = "/orders/place" -> "place_order"
      [] OTHER -> "close_all_positions"

\* The handlers with `except HTTPException: raise` before `except Exception`.
Reraises(route) == route \in {"/funds", "/orders/open", "/orders/place"}

Reply(status, body) == [status |-> status, body |-> body]
NoReply == Reply(0, None)

\* The response of a handler whose client call ended as out: FastAPI turns a raised
\* HTTPException into a response of its status_code and detail; /orders/place
\* calls res.get on the body returned, an AttributeError on a list or a scalar.
HandlerReply(route, out) ==
    IF out.ok
    THEN IF route = "/orders/place" /\ ~IsJsonObject(out.value)
         THEN Reply(502, Str("Order failed"))
         ELSE Reply(200, out.value)
    ELSE IF out.exc = "HTTPException" /\ Reraises(route)
    THEN Reply(out.status, out.value)
    ELSE Reply(502, Str("failed"))

NoResponse == [status |-> 0, body |-> NoPayload, kind |-> "none", json |-> FALSE]

\* No request has been handled.
NoApi == [src |-> NoSrc, resp |-> NoResponse, out |-> Returns(0, None), op |-> "none",
          sent |-> 0, wire |-> NoWire, route |-> "none", reply |-> NoReply]

Api(route, op, src, resp, called, reply) ==
    [src |-> src, resp |-> resp, out |-> called.out, op |-> op, sent |-> called.sent,
     wire |-> called.wire, route |-> route, reply |-> reply]

\* A request to a handler of main.py, whose client call the brokerage answers by
\* resp.
HandleRequest(route, src, resp) ==
    /\ client = "serving"
    /\ LET called == ClientCall(RouteOp(route), src, resp)
       IN  api' = Api(route, RouteOp(route), src, resp, called,
                      HandlerReply(route, called.out))
    /\ UNCHANGED <<KOTAK_BASE_URL, client, optPaths>>
    /\ UNCHANGED <<authVars, authResult, workerVars, storeVars>>

\* A call of a KotakClient method from elsewhere than a handler (the auto-sell
\* loop's get_positions and place_order(**kwargs), get_orders).
CallClient(op, src, resp) ==
    /\ client = "serving"
    /\ api' = Api("", op, src, resp, ClientCall(op, src, resp), NoReply)
    /\ UNCHANGED <<KOTAK_BASE_URL, client, optPaths>>
    /\ UNCHANGED <<authVars, authResult, workerVars, storeVars>>

-----------------------------------------------------------------------------
(* Initial states and specifications *)

\* A client with nothing to resolve yet: bearer mode and its token.
AuthIdle ==
    /\ KOTAK_AUTH_MODE = "bearer"
    /\ KOTAK_API_KEY = ""
    /\ KOTAK_ACCESS_TOKEN = "k1"
    /\ KOTAK_INTERNAL_KEY = ""
    /\ KOTAK_CLIENT_CODE = ""
    /\ authResult = NoAuthResult

\* main.py at import: k = KotakClient() has returned, no optional path is set, no
\* request has come in.
ApiIdle ==
    /\ KOTAK_BASE_URL = "https://gw"
    /\ client = "serving"
    /\ optPaths = {}
    /\ api = NoApi

\* AutoSellWorker.__init__ and main.py's worker = AutoSellWorker(k): the task is
\* created at startup and has not run yet.
WorkerInit ==
    /\ y = y_default
    /\ enabled = enabled_default
    /\ pc = "ready"
    /\ sleepLeft = 0
    /\ callTicks = 0
    /\ payload = NoPayload
    /\ positions = <<>>
    /\ idx = 0
    /\ iterEnabled = FALSE
    /\ iterY = y_default
    /\ iterErr = FALSE
    /\ iterFetches = 0
    /\ iterOrders = <<>>
    /\ iterDeltas = <<>>
    /\ lastOrders = NotComparable
    /\ slept = 0
    /\ lastWrite = NoWrite
    /\ writeSeen = "none"

\* TokenStore's class attributes at import: an empty table and a free lock.
StoreInit ==
    /\ tokens = EmptyTable
    /\ lock = Free
    /\ now = 1000
    /\ spc = [c \in Callers |-> "idle"]
    /\ call = [c \in Callers |-> NoCall]
    /\ held = [c \in Callers |-> NoEntry]
    /\ ret = NoRet
    /\ fresh = NoFresh
    /\ snap = NoSnap

\* ---- The auto-sell loop, configuration writes and the brokerage's answers.
\* The client is in bearer mode, with its token set or not.
Init ==
    /\ KOTAK_AUTH_MODE = "bearer"
    /\ KOTAK_API_KEY = ""
    /\ KOTAK_ACCESS_TOKEN \in {"", "k1"}
    /\ KOTAK_INTERNAL_KEY = ""
    /\ KOTAK_CLIENT_CODE = ""
    /\ authResult = NoAuthResult
    /\ WorkerInit
    /\ StoreInit
    /\ ApiIdle

Next ==
    \/ IterStart
    \/ \E resp \in FetchResponses : FetchReturn(resp)
    \/ \E resp \in PlaceResponses : PlaceReturn(resp)
    \/ WorkerTick
    \/ \E newY \in Thresholds, newEnabled \in BOOLEAN : UpdateConfig(Num(newY), newEnabled)

Spec == Init /\ [][Next]_vars

\* ---- The worker under inputs the gateway does not rule out: a position held
\* short, which the brokerage reports with a negative quantity, and an
\* update_config call whose threshold float() rejects.
PosShort == [symbol |-> Str("TCS"), qty |-> Num(0 - 4), avgPrice |-> Num(100000)]
ShortPayloads ==
    {[shape |-> "list", items |-> l] :
        l \in {<<PosShort>>, <<PosTCS, PosShort>>, <<PosShort, PosINFY>>}}
ThresholdArgs == {Num(t) : t \in Thresholds} \cup {Str("abc")}

NextWide ==
    \/ IterStart
    \/ \E resp \in {Timeout} \cup {Http(200, TRUE, b) : b \in ShortPayloads} : FetchReturn(resp)
    \/ \E resp \in PlaceResponses : PlaceReturn(resp)
    \/ WorkerTick
    \/ \E newY \in ThresholdArgs, newEnabled \in BOOLEAN : UpdateConfig(newY, newEnabled)

SpecWide == Init /\ [][NextWide]_vars

\* The event loop runs the task whenever it can run, every outbound call ends
\* (with a response or the client's timeout), and time passes.
LiveSpec ==
    /\ Spec
    /\ WF_vars(IterStart)
    /\ WF_vars(\E resp \in FetchResponses : FetchReturn(resp))
    /\ WF_vars(\E resp \in PlaceResponses : PlaceReturn(resp))
    /\ WF_vars(WorkerTick)

\* ---- Header resolution under every configuration.
\* main.py line 55 at import: k = KotakClient().
KotakClientInit ==
    /\ client = "unbuilt"
    /\ client' = IF Constructs(KOTAK_BASE_URL, KOTAK_AUTH_MODE) THEN "serving" ELSE "failed"
    /\ UNCHANGED <<authVars, authResult, workerVars, storeVars>>
    /\ UNCHANGED <<KOTAK_BASE_URL, optPaths, api>>

\* A request handler of the serving application calls self._auth_headers().
ResolveHeaders ==
    /\ client = "serving"
    /\ authResult' = CurrentAuth
    /\ UNCHANGED client
    /\ UNCHANGED <<authVars, workerVars, storeVars, KOTAK_BASE_URL, optPaths, api>>

InitAuth ==
    /\ KOTAK_AUTH_MODE \in AuthModes
    /\ KOTAK_API_KEY \in Credentials
    /\ KOTAK_ACCESS_TOKEN \in Credentials
    /\ KOTAK_INTERNAL_KEY \in Credentials
    /\ KOTAK_CLIENT_CODE \in ClientCodes
    /\ authResult = NoAuthResult
    /\ WorkerInit
    /\ StoreInit
    /\ KOTAK_BASE_URL \in BaseUrls
    /\ client = "unbuilt"
    /\ optPaths = {}
    /\ api = NoApi

NextAuth == KotakClientInit \/ ResolveHeaders

\* probe_funds_auth calls k._attempts().
CallAttempts ==
    /\ client = "serving"
    /\ api' = [NoApi EXCEPT !.route = "/__probe/funds-auth", !.op = "_attempts",
                           !.out = Returns(0, [shape |-> "attempts",
                                               items |-> Attempts(KOTAK_API_KEY,
                                                   KOTAK_ACCESS_TOKEN, KOTAK_INTERNAL_KEY,
                                                   KOTAK_CLIENT_CODE)])]
    /\ UNCHANGED <<KOTAK_BASE_URL, client, optPaths>>
    /\ UNCHANGED <<authVars, authResult, workerVars, storeVars>>

\* ---- The diagnostic probe under every configuration of the credentials.
NextProbe == KotakClientInit \/ CallAttempts

SpecProbe == InitAuth /\ [][NextProbe]_vars

SpecAuth == InitAuth /\ [][NextAuth]_vars

\* ---- The token table as the event loop runs its handlers.
InitStore == AuthIdle /\ WorkerInit /\ StoreInit /\ ApiIdle

NextStore ==
    \/ \E c \in Callers, name \in TokenNames, value \in TokenValues, expiry \in ExpiryArgs :
          SetToken(c, name, value, expiry)
    \/ \E c \in Callers, name \in TokenNames : GetToken(c, name)
    \/ \E c \in Callers : AllTokens(c, FALSE)
    \/ \E t \in Instants : StoreTick(t)

SpecStore == InitStore /\ [][NextStore]_vars

\* ---- The token table with a caller that keeps the dict all_tokens returned and
\* changes it.
NextSnapshot ==
    \/ \E name \in LockNames, value \in TokenValues, expiry \in LockExpiryArgs :
          SetToken("c1", name, value, expiry)
    \/ \E name \in LockNames : GetToken("c1", name)
    \/ \E keeps \in BOOLEAN : AllTokens("c2", keeps)
    \/ \E name \in LockNames, value \in TokenValues : SnapshotAssign(name, "value", value)
    \/ \E name \in LockNames : SnapshotAssign(name, "expiry", 1001)
    \/ \E name \in {"sid", "trade_token"}, entry \in {NoEntry, Entry(Str("b"), 0)} :
          SnapshotRebind(name, entry)
    \/ \E t \in Instants : StoreTick(t)

SpecSnapshot == InitStore /\ [][NextSnapshot]_vars

\* ---- Outbound calls of a bearer-mode client while the login flow stores tokens.
\* The environment's token is not set, is "k1", or is the value "a" that the flow
\* also stores.
InitCall ==
    /\ KOTAK_AUTH_MODE = "bearer"
    /\ KOTAK_API_KEY = ""
    /\ KOTAK_ACCESS_TOKEN \in {"", "k1", "a"}
    /\ KOTAK_INTERNAL_KEY = ""
    /\ KOTAK_CLIENT_CODE = ""
    /\ authResult = NoAuthResult
    /\ WorkerInit /\ StoreInit /\ ApiIdle

NextCall ==
    \/ \E value \in TokenValues, expiry \in ExpiryArgs :
          SetToken("c1", "access_token", value, expiry)
    \/ \E t \in Instants : StoreTick(t)
    \/ ResolveHeaders

SpecCall == InitCall /\ [][NextCall]_vars

\* ---- place_order(**kwargs) calls of a client that resolves its headers.
\* What an order input holds under `key`: nothing, null, or one of values.
Given(key, values) == {EmptyDict} \cup {key :> v : v \in values \cup {None}}

\* The order inputs of the model: a symbol, each of the four synonym fields absent,
\* null or set (a quantity also to 0), and a tag absent, null or set.
OrderInputs ==
    {("symbol" :> Str("TCS")) @@ a @@ b @@ c @@ d @@ e :
        a \in Given("transaction_type", {Str("BUY")}),
        b \in Given("side", {Str("BUY")}),
        c \in Given("quantity", {Num(5), Num(0)}),
        d \in Given("qty", {Num(5), Num(0)}),
        e \in Given("tag", {Str("t")})}

NextOrder ==
    \E src \in OrderInputs : CallClient("place_order", src, Http(200, TRUE, OrderAck))

SpecOrder == InitStore /\ [][NextOrder]_vars

\* ---- GET /funds answered by every funds payload of the model.
NextFunds ==
    \E json \in FundsPayloads : HandleRequest("/funds", NoSrc, Http(200, TRUE, FundsBody(json)))

SpecFunds == InitStore /\ [][NextFunds]_vars

\* ---- The handlers of main.py and the loop's client calls, with the bearer token
\* set or not, the optional paths all empty or all set, and a brokerage that
\* answers or not.
TextBody == [shape |-> "text", items |-> <<>>]
ListBody == [shape |-> "list", items |-> <<>>]
ScalarBody == [shape |-> "scalar", items |-> <<>>]

ApiResponses ==
    {Timeout, Http(200, TRUE, OrderAck), Http(200, TRUE, ListBody), Http(200, FALSE, TextBody),
     Http(200, TRUE, FundsBody("available" :> Num(100))),
     Http(500, FALSE, TextBody), Http(500, TRUE, ListBody), Http(500, TRUE, ScalarBody)}
    \cup {Http(401, TRUE, ErrorObject(f)) : f \in ErrorFields}

\* PlaceOrderRequest(symbol="TCS", side="BUY", qty=5).model_dump()
DumpedOrder ==
    [tag |-> None, symbol |-> Str("TCS"), side |-> Str("BUY"),
     qty |-> Num(5), order_type |-> Str("MARKET"), price |-> None, quantity |-> None,
     exchange |-> Str("NFO"), product |-> Str("MIS"), transaction_type |-> None,
     validity |-> Str("DAY"), disclosed_quantity |-> Num(0), trigger_price |-> None]

InitApi ==
    /\ KOTAK_AUTH_MODE = "bearer"
    /\ KOTAK_API_KEY = ""
    /\ KOTAK_ACCESS_TOKEN \in {"", "k1"}
    /\ KOTAK_INTERNAL_KEY = ""
    /\ KOTAK_CLIENT_CODE = ""
    /\ authResult = NoAuthResult
    /\ WorkerInit /\ StoreInit
    /\ KOTAK_BASE_URL = "https://gw"
    /\ client = "serving"
    /\ optPaths \in {{}, OptionalPaths}
    /\ api = NoApi

NextApi ==
    \/ \E route \in Routes, resp \in ApiResponses :
          HandleRequest(route, IF route = "/orders/place" THEN DumpedOrder ELSE NoSrc, resp)
    \/ \E op \in {"get_positions", "get_orders"}, resp \in ApiResponses :
          CallClient(op, NoSrc, resp)

SpecApi == InitApi /\ [][NextApi]_vars

\* ---- The token table with callers that interleave inside their calls.
NextLock ==
    \/ \E c \in Callers, name \in LockNames, value \in TokenValues, expiry \in LockExpiryArgs :
          BeginCall(c, "set", name, value, expiry)
    \/ \E c \in Callers, name \in LockNames : BeginCall(c, "get", name, None, None)
    \/ \E c \in Callers : BeginCall(c, "all", "", None, None)
    \/ \E c \in Callers : Acquire(c)
    \/ \E c \in Callers : SetWrite(c)
    \/ \E c \in Callers : GetRead(c)
    \/ \E c \in Callers : GetJudge(c)
    \/ \E c \in Callers : AllCopy(c)
    \/ \E t \in Instants : StoreTick(t)

SpecLock == InitStore /\ [][NextLock]_vars

-----------------------------------------------------------------------------
(* Properties of the auto-sell loop *)

\* A step that starts an iteration: the task's first run, or the return from
\* asyncio.sleep into the next `if self.enabled`.
IterStartStep ==
    \/ pc = "ready" /\ pc' # "ready"
    \/ pc = "sleeping" /\ (pc' = "fetching" \/ sleepLeft' > sleepLeft)

\* p has a symbol, a quantity and an average buy price: each is present under one
\* of its keys and is neither empty nor zero.
HasAll(p) ==
    /\ IsDict(p)
    /\ \E k \in {"symbol", "tradingsymbol"} : k \in DOMAIN p /\ p[k].t = "str" /\ p[k].s # ""
    /\ \E k \in {"qty", "quantity"} : k \in DOMAIN p /\ p[k].t = "num" /\ p[k].n # 0
    /\ \E k \in {"buy_price", "avgPrice", "avg_buy_price"} :
          k \in DOMAIN p /\ p[k].t = "num" /\ p[k].n # 0

\* The positions the for loop has gone through so far that have all three.
Ordered == SelectSeq(SubSeq(positions, 1, idx), HasAll)

\* r (mills) is x (mills) rounded to 2 decimals: a multiple of 10 mills nearest to
\* x, the even hundredth on a tie.
IsRounded2(x, r) ==
    /\ r % 10 = 0
    /\ r - x <= 5 /\ x - r <= 5
    /\ (r - x = 5 \/ x - r = 5) => (r \div 10) % 2 = 0

\* order is a LIMIT SELL of p's quantity at p's average buy price + delta.
IsLimitSell(order, p, delta) ==
    /\ {"symbol", "transactionType", "quantity", "orderType", "price"} \subseteq DOMAIN order
    /\ order["symbol"] = PosSymbol(p)
    /\ order["transactionType"] = Str("SELL")
    /\ order["orderType"] = Str("LIMIT")
    /\ order["quantity"] = PosQty(p)
    /\ order["price"].t = "num"
    /\ IsRounded2(PosBuyPrice(p).n + delta, order["price"].n)

\* An enabled iteration has ended without an error.
CleanDone == pc = "sleeping" /\ iterEnabled /\ ~iterErr

\* C1: an iteration that started while enabled was false has sent no
\* get_positions request and no order, and is not waiting for either, whatever
\* the brokerage would report.
C1_DisabledNoOrders ==
    ~iterEnabled => /\ iterFetches = 0
                    /\ iterOrders = <<>>
                    /\ pc \in {"ready", "sleeping"}

\* A disabled iteration has run to its end although the last payload fetched
\* holds a position with all three fields.
C1_Witness ==
    /\ ~iterEnabled /\ pc = "sleeping" /\ sleepLeft = 0
    /\ \E i \in 1..Len(payload.items) : HasAll(payload.items[i])

\* C2: when an enabled iteration ends without error it has fetched once and has
\* submitted exactly one order per position with a (non-empty, non-zero) symbol,
\* quantity and average buy price, in list order: a LIMIT SELL of the position's
\* quantity at round(averageBuyPrice + y, 2), y being the threshold in force when
\* that order was priced (10 at 100.00 with y = 2.0: SELL 10 at 102.00); and when
\* the previous iteration was such an iteration on the same payload, with no
\* configuration write since it started, the same orders were submitted again.
C2_OneLimitSellPerPosition ==
    CleanDone =>
        /\ iterFetches = 1
        /\ idx = Len(positions)
        /\ Len(iterOrders) = Len(Ordered)
        /\ \A i \in 1..Len(iterOrders) :
              /\ IsLimitSell(iterOrders[i], Ordered[i], iterDeltas[i])
              /\ (Ordered[i] = PosTCS /\ iterDeltas[i] = 2000)
                    => /\ iterOrders[i]["quantity"] = Num(10)
                       /\ iterOrders[i]["price"] = Num(102000)
        /\ lastOrders # NotComparable => iterOrders = lastOrders

\* An iteration has ended that submitted SELL 10 TCS at 102.00, skipped or not
\* other positions, and repeated the previous iteration's orders.
C2_Witness ==
    /\ CleanDone
    /\ lastOrders # NotComparable
    /\ \E i \in 1..Len(iterOrders) :
          Ordered[i] = PosTCS /\ iterOrders[i]["price"] = Num(102000)
    /\ lastOrders = iterOrders

\* C3: a failure in an iteration is absorbed: the step that fails leaves the loop
\* asleep for one poll interval and never stopped; every sleep, after a failure or
\* not, lasts exactly interval_sec seconds before the next iteration starts; and
\* after a failed iteration a later iteration always starts.
C3_FailureAbsorbed ==
    /\ [](pc \in {"ready", "fetching", "placing", "sleeping"})
    /\ [][(iterErr' /\ (~iterErr \/ IterStartStep))
             => (pc' = "sleeping" /\ sleepLeft' = interval_sec /\ slept' = 0)]_vars
    /\ [][(IterStartStep /\ pc = "sleeping") => slept = interval_sec]_vars
    /\ [](pc = "sleeping" => slept + sleepLeft = interval_sec)
    /\ (pc = "sleeping" /\ iterErr /\ slept > 0)
          ~> (pc = "fetching" \/ (pc = "sleeping" /\ slept = 0))

\* An iteration failed after it had submitted an order, and the sleep that
\* followed has lasted one poll interval.
C3_Witness ==
    /\ pc = "sleeping" /\ iterErr /\ iterOrders # <<>>
    /\ sleepLeft = 0 /\ slept = interval_sec

\* C4: every order of an iteration carries the price computed with the threshold
\* that was in force when the iteration started, a configuration write made while
\* the iteration is in progress touching only the following iteration.
C4_PricedAsAtIterationStart ==
    \A i \in 1..Len(iterOrders) :
        IsRounded2(PosBuyPrice(Ordered[i]).n + iterY, iterOrders[i]["price"].n)

\* The configuration is what the last update_config call wrote.
ConfigIsLastWrite ==
    /\ lastWrite.written => (y = lastWrite.y /\ enabled = lastWrite.enabled)
    /\ ~lastWrite.written => (y = y_default /\ enabled = FALSE)

\* A lower bound on the seconds since the oldest write that no iteration start has
\* read: the seconds slept since, plus one when the iteration the write was made in
\* lasted a second or more after it.
WriteAgeAtLeast ==
    IF writeSeen = "late" THEN slept + 1
    ELSE IF writeSeen = "busy" THEN slept
    ELSE 0

\* C5 as stated: the configuration is what the last write wrote, and a write is
\* read by an iteration start within one poll interval.
C5_Original == ConfigIsLastWrite /\ WriteAgeAtLeast <= interval_sec

\* C5 as amended: a write replaces both fields, the last write wins, and the
\* first iteration start after it reads it and acts on it (fetching when enabled,
\* sleeping at once when disabled), the task never being restarted; that start
\* comes when the sleep in progress ends, or one poll interval after the iteration
\* in progress ends.
C5_WriteTakesEffectAtNextStart ==
    /\ [](ConfigIsLastWrite)
    /\ [][pc' = "ready" => pc = "ready"]_vars
    /\ [][IterStartStep
             => /\ iterEnabled' = enabled /\ iterY' = y
                /\ writeSeen' = "none"
                /\ enabled => (pc' = "fetching" \/ (pc' = "sleeping" /\ iterErr'))
                /\ ~enabled => (pc' = "sleeping" /\ ~iterErr' /\ iterOrders' = <<>>)
                /\ pc = "sleeping" => slept = interval_sec]_vars
    /\ [](writeSeen = "asleep" => pc \in {"ready", "sleeping"})
    /\ []((writeSeen \in {"busy", "late"} /\ pc = "sleeping") => slept <= interval_sec)

\* The loop, started disabled, is fetching in an iteration that read a written
\* enabled = true, and a later write has disabled it again.
C5_Witness ==
    /\ pc = "fetching" /\ iterEnabled
    /\ lastWrite.written /\ ~enabled /\ writeSeen = "busy"

-----------------------------------------------------------------------------
(* Properties of the token table *)

\* C6 as stated: get_token returns the stored value exactly when an entry exists
\* under the name and its expiry is strictly greater than the time of the call,
\* and None otherwise (name never set, or expiry <= now).
C6_Original ==
    ret.op = "get" =>
        ret.value = IF ret.entry.present /\ ret.entry.expiry > ret.at
                    THEN ret.entry.value
                    ELSE None

\* C6 as amended: get_token leaves the table alone and returns the stored value
\* exactly when an entry exists under the name and its expiry is not earlier than
\* the time of the call (expiry >= now); for a name never set, or one whose expiry
\* is earlier than now, it returns None whatever the stored value is; it always
\* returns.
C6_GetUnlessExpiryPassed ==
    [][(ret' # ret /\ ret'.op = "get")
          => /\ tokens' = tokens
             /\ ret'.entry = tokens[ret'.name]
             /\ ret'.value \in TokenValues \cup {None}
             /\ ret'.value = IF tokens[ret'.name].present /\ tokens[ret'.name].expiry >= now
                             THEN tokens[ret'.name].value
                             ELSE None]_vars

\* A get_token made in the very second an entry expires has returned its value.
C6_Witness ==
    /\ ret.op = "get" /\ ret.entry.present
    /\ ret.entry.expiry = ret.at
    /\ ret.value = ret.entry.value /\ ret.value # None

\* C7: a get_token that follows a set_token(name, value) of the same name, with
\* no time elapsed and no other set_token in between, returns the value stored,
\* whether or not an entry, expired or live, was there before.
C7_SetThenGet ==
    (ret.op = "get" /\ fresh # NoFresh /\ fresh.name = ret.name)
        => ret.value = fresh.value

\* A set_token replaced an expired entry and the get_token that followed at once
\* returned the new value.
C7_Witness ==
    /\ ret.op = "get" /\ fresh # NoFresh /\ fresh.name = ret.name
    /\ fresh.over.present /\ Expired(fresh.over, now)
    /\ fresh.over.value # fresh.value
    /\ ret.value = fresh.value

\* C8: set_token replaces the entry of its name by the value given and leaves
\* every other name as it was; the expiry recorded is the expiry given whenever
\* one is passed, and now + 3600 only when it is omitted.
C8_SetStoresGivenExpiry ==
    [][(ret' # ret /\ ret'.op = "set")
          => tokens' = [tokens EXCEPT ![ret'.name] =
                           Entry(ret'.value, IF ret'.expiry = None
                                             THEN now + default_ttl
                                             ELSE ret'.expiry.n)]]_vars

\* The callers inside `async with cls._lock`.
InCriticalSection == {c \in Callers : spc[c] \in {"locked", "judging"}}

\* C9: at most one caller is inside the critical section of set_token, get_token
\* or all_tokens, the lock is held by exactly that caller, and the entry a
\* get_token has read is still the table's entry when it is judged: a set_token of
\* the same name comes wholly before the read or wholly after the return.
C9_ExclusiveLock ==
    /\ Cardinality(InCriticalSection) <= 1
    /\ \A c \in Callers : c \in InCriticalSection <=> lock = c
    /\ \A c \in Callers : spc[c] = "judging" => held[c] = tokens[call[c].name]
    /\ \A c \in Callers : spc[c] = "waiting" => call[c] # NoCall

\* A get_token has read an entry and not yet judged it while a set_token of the
\* same name with another value waits for the lock.
C9_Witness ==
    \E c, d \in Callers :
        /\ c # d
        /\ spc[c] = "judging" /\ call[c].op = "get"
        /\ spc[d] = "waiting" /\ call[d].op = "set"
        /\ call[d].name = call[c].name /\ call[d].value # held[c].value

-----------------------------------------------------------------------------
(* Properties of header resolution *)

\* The headers that carry a credential.
CredentialHeaderNames == {"apikey", "authorization", "Internal-Key"}

\* The credential the configured mode requires, and the header that carries it.
SelectedCredential ==
    IF KOTAK_AUTH_MODE = "apikey" THEN KOTAK_API_KEY
    ELSE IF KOTAK_AUTH_MODE = "bearer" THEN KOTAK_ACCESS_TOKEN
    ELSE KOTAK_INTERNAL_KEY

SelectedHeader ==
    IF KOTAK_AUTH_MODE = "apikey" THEN Header("apikey", "", KOTAK_API_KEY)
    ELSE IF KOTAK_AUTH_MODE = "bearer" THEN Header("authorization", "Bearer", KOTAK_ACCESS_TOKEN)
    ELSE Header("Internal-Key", "", KOTAK_INTERNAL_KEY)

\* C10: under each of the three modes, header resolution fails (status 500, no
\* headers) exactly when the mode's own credential is empty, and otherwise the
\* only credential header it emits is the mode's own (apikey, authorization:
\* Bearer <token>, Internal-Key) with the mode's credential, whatever the other
\* credentials are set to.
C10_SelectedModeOnly ==
    (authResult # NoAuthResult /\ KOTAK_AUTH_MODE \in {"apikey", "bearer", "internal"})
        => /\ authResult.ok <=> SelectedCredential # ""
           /\ ~authResult.ok => (authResult.status = 500 /\ authResult.headers = {})
           /\ authResult.ok
                 => {h \in authResult.headers : h.name \in CredentialHeaderNames}
                        = {SelectedHeader}

\* Bearer mode has resolved its headers while an API key and an internal key are
\* configured too.
C10_Witness ==
    /\ authResult.ok /\ KOTAK_AUTH_MODE = "bearer"
    /\ KOTAK_API_KEY # "" /\ KOTAK_INTERNAL_KEY # ""
    /\ Header("authorization", "Bearer", KOTAK_ACCESS_TOKEN) \in authResult.headers

\* C11 as stated: with a mode _auth_headers has no branch for, the client is never
\* constructed and serving, and no header resolution of a request reports the mode.
C11_Original ==
    KOTAK_AUTH_MODE \notin KnownModes
        => /\ client # "serving"
           /\ authResult.detail # "Unknown KOTAK_AUTH_MODE"

\* C11 as amended: the mode is not looked at when the client is constructed
\* (construction fails exactly when the base URL is empty), so with an unrecognised
\* mode the client is serving, and every header resolution of a request fails
\* there with status 500 "Unknown KOTAK_AUTH_MODE", emitting no header, whatever
\* credentials are configured.
C11_UnknownModeFailsPerRequest ==
    /\ client = "failed" <=> (KOTAK_BASE_URL = "" /\ client # "unbuilt")
    /\ authResult # NoAuthResult => client = "serving"
    /\ (authResult # NoAuthResult /\ KOTAK_AUTH_MODE \notin KnownModes)
          => authResult = Raise(500, "Unknown KOTAK_AUTH_MODE")

\* A serving client with every credential configured has refused a request's
\* header resolution because of its mode.
C11_Witness ==
    /\ client = "serving" /\ KOTAK_AUTH_MODE = "oauth"
    /\ KOTAK_API_KEY # "" /\ KOTAK_ACCESS_TOKEN # "" /\ KOTAK_INTERNAL_KEY # ""
    /\ authResult = Raise(500, "Unknown KOTAK_AUTH_MODE")

\* The entry stored under access_token is current: set and not expired.
CurrentAccessToken ==
    tokens["access_token"].present /\ ~Expired(tokens["access_token"], now)

\* C12: an outbound call resolves its headers from the token table: while a current
\* access_token is stored, the headers _auth_headers returns to the call carry
\* that stored value as the bearer token.
C12_CallUsesStoredCredential ==
    [][(authResult' # authResult /\ CurrentAccessToken)
          => Header("authorization", "Bearer", tokens["access_token"].value.s)
                 \in authResult'.headers]_vars

\* The other name of a synonym field when its pair is in `pairs`, else the name.
OtherName(k, pairs) ==
    CASE k = "transaction_type" /\ "txn" \in pairs -> "side"
      [] k = "side" /\ "txn" \in pairs -> "transaction_type"
      [] k = "quantity" /\ "qty" \in pairs -> "qty"
      [] k = "qty" /\ "qty" \in pairs -> "quantity"
      [] OTHER -> k

\* The order input src with the synonyms of `pairs` named the other way.
Renamed(src, pairs) ==
    [k \in {OtherName(j, pairs) : j \in DOMAIN src} |-> src[OtherName(k, pairs)]]

\* The input names T under one of transaction_type/side and Q under one of
\* quantity/qty, and nothing under the other name.
NamesEachOnce(src) ==
    /\ \E k \in {"transaction_type", "side"} :
          {"transaction_type", "side"} \cap DOMAIN src = {k} /\ src[k] # None
    /\ \E k \in {"quantity", "qty"} :
          {"quantity", "qty"} \cap DOMAIN src = {k} /\ src[k] # None

\* C13: an order input that names T and Q under one synonym each is posted as the
\* same wire payload as the inputs that name them under the other synonyms, all
\* other fields equal.
C13_SynonymsGiveSamePayload ==
    (api.op = "place_order" /\ api.sent = 1 /\ NamesEachOnce(api.src))
        => \A pairs \in SUBSET {"txn", "qty"} :
              WirePayload(Renamed(api.src, pairs)) = api.wire

\* C14: the wire payload of any order input holds a transactionType and a
\* quantity, never a raw synonym key, and holds an optional field exactly when the
\* input gives it a value that is not null.
C14_OneCanonicalValuePerPair ==
    (api.op = "place_order" /\ api.sent = 1)
        => /\ {"transactionType", "quantity"} \subseteq DOMAIN api.wire
           /\ DOMAIN api.wire \cap {"transaction_type", "side", "qty"} = {}
           /\ "tag" \in DOMAIN api.wire <=> Get(api.src, "tag") # None

\* The candidates of location d that can be used: a number, or a string that
\* reads as one.
Usable(d, k) == Matches(d, k) /\ ToFloat(d[k]).ok

\* The locations of a funds object in the order they are searched, and the pairs
\* <<location, candidate>> that hold a usable candidate.
FundsLocations(data) == <<data, SubDict(data, "data"), SubDict(data, "limits")>>
UsableAt(data) ==
    {lc \in (1..3) \X (1..Len(Candidates)) :
        Usable(FundsLocations(data)[lc[1]], Candidates[lc[2]])}
Before(a, b) == a[1] < b[1] \/ (a[1] = b[1] /\ a[2] <= b[2])

\* C15: get_funds on a funds object returns the first usable candidate in the
\* order top level, data, limits, and fails with 500 "Unexpected funds payload"
\* exactly when no location holds one; a candidate that cannot be used does not
\* hide a later one.
C15_FirstUsableCandidate ==
    (api.op = "get_funds" /\ api.sent = 1 /\ api.resp.body.shape = "funds"
        /\ IsDict(api.resp.body.json))
        => LET data == api.resp.body.json
               found == UsableAt(data)
           IN  IF found = {}
               THEN api.out = UnexpectedFunds(data)
               ELSE LET lc == CHOOSE a \in found : \A b \in found : Before(a, b)
                    IN  api.out = ToFloat(FundsLocations(data)[lc[1]][Candidates[lc[2]]])

\* The last call sent a request that the brokerage answered with a non-success
\* status.
AnsweredNonSuccess ==
    api.sent = 1 /\ api.resp.kind = "http" /\ ~IsSuccess(api.resp.status)

\* The first of the body's message, error, errors fields that is neither absent,
\* null nor empty, else the whole body.
BestEffortMessage(body) ==
    LET f == Fields(body)
        filled == {i \in 1..3 : Get(f, <<"message", "error", "errors">>[i]) \notin {None, Str("")}}
    IN  IF filled = {} THEN body
        ELSE f[<<"message", "error", "errors">>[CHOOSE i \in filled : \A j \in filled : i <= j]]

\* C16: a call answered with a non-success status ends in an HTTPException of the
\* response's status whose detail is the best-effort message of a JSON body, of
\* whatever shape, or the raw text of a body that is not JSON.
C16_NonSuccessBecomesUpstreamError ==
    AnsweredNonSuccess
        => api.out = Raised("HTTPException", api.resp.status,
                            IF api.resp.json THEN BestEffortMessage(api.resp.body)
                            ELSE api.resp.body)

\* C17: a handler whose client call ended in the HTTPException of a non-success
\* answer replies with that exception's status and detail.
C17_HandlersKeepUpstreamStatus ==
    (api.route \in Routes /\ AnsweredNonSuccess /\ api.out.exc = "HTTPException")
        => api.reply = Reply(api.resp.status, api.out.value)

ReceivesPayload == pc = "fetching" /\ payload' # payload

\* C19: an iteration that receives a bare list or an object with a list under
\* "data" works on that list; one that receives any other shape works on the
\* empty list, places no order and ends without an error.
C19_OtherShapesAreEmptyList ==
    [][ReceivesPayload
         => IF payload'.shape \in {"list", "data"}
            THEN positions' = payload'.items
            ELSE /\ positions' = <<>>
                 /\ iterOrders' = <<>>
                 /\ pc' = "sleeping" /\ ~iterErr']_vars

\* An enabled iteration has ended cleanly on the object {"data": 5}, and another on
\* a list nested under "data".
C19_Witness ==
    /\ pc = "sleeping" /\ iterEnabled /\ iterFetches = 1 /\ ~iterErr
    /\ payload.shape = "datascalar"
    /\ positions = <<>> /\ iterOrders = <<>>

\* An element of the fetched list that lacks a symbol, a quantity or an average
\* buy price: any element that is not a dict, and a dict without one of them.
Malformed(p) == ~IsDict(p) \/ Skipped(p)

\* The orders for the well-formed elements of ps, in order.
RECURSIVE OrdersFor(_, _)
OrdersFor(ps, delta) ==
    IF ps = <<>> THEN <<>>
    ELSE IF Malformed(Head(ps)) THEN OrdersFor(Tail(ps), delta)
    ELSE <<WirePayload(OrderKwargs(Head(ps), delta))>> \o OrdersFor(Tail(ps), delta)

\* C20: no iteration ends in an error at a malformed element, and an iteration
\* that ends without an error (its threshold unchanged meanwhile) has placed the
\* orders of all the well-formed elements of the list and no other.
C20_MalformedSkippedSilently ==
    (pc = "sleeping" /\ iterEnabled /\ iterFetches = 1)
        => /\ (iterErr /\ idx >= 1) => ~Malformed(positions[idx])
           /\ (~iterErr /\ writeSeen = "none") => iterOrders = OrdersFor(positions, iterY)

\* C21: a change the holder makes to the dict all_tokens returned (a step that
\* changes that dict and is no call of the store) leaves the table as it is, and
\* so what every later get_token and all_tokens returns; and a set_token leaves
\* the dict returned as it is.
C21_SnapshotIsACopy ==
    [][/\ (snap'.table # snap.table /\ ret' = ret) => tokens' = tokens
       /\ tokens' # tokens => snap'.table = snap.table]_vars

\* C22: a get_token and an all_tokens leave the table as it is; a get_token that
\* finds an expired entry returns None and the entry stays, and all_tokens returns
\* the whole table, expired entries with their value and expiry included; a step
\* that changes the table is a set_token.
C22_LazyExpiration ==
    [][/\ (ret' # ret /\ ret'.op \in {"get", "all"}) => tokens' = tokens
       /\ (ret' # ret /\ ret'.op = "get" /\ tokens[ret'.name].present
             /\ Expired(tokens[ret'.name], now))
            => ret'.value = None /\ tokens'[ret'.name] = tokens[ret'.name]
       /\ (ret' # ret /\ ret'.op = "all") => ret'.table = tokens
       /\ tokens' # tokens => ret'.op = "set"]_vars

\* all_tokens has returned an entry that get_token treats as absent.
C22_Witness ==
    /\ ret.op = "all"
    /\ \E n \in TokenNames :
          /\ ret.table[n].present /\ Expired(ret.table[n], now)
          /\ ret.table[n] = tokens[n]
          /\ GetTokenResult(tokens[n], now) = None

\* The list a call of _attempts has returned.
ProbeList == api.out.value.items

\* The credentials that are set, in the order _attempts looks at them, each with
\* the name of its authentication mode.
PresentCredentials ==
    SelectSeq(<<[value |-> KOTAK_ACCESS_TOKEN, mode |-> "bearer"],
                [value |-> KOTAK_API_KEY, mode |-> "apikey"],
                [value |-> KOTAK_INTERNAL_KEY, mode |-> "internal"]>>,
              LAMBDA c : c.value # "")

\* The headers of attempt a are the two base headers, one header carrying v, and
\* the client code when one is configured.
CarriesOnly(a, v) ==
    /\ BaseHeaders \cup ClientCodeHeader(KOTAK_CLIENT_CODE) \subseteq a.headers
    /\ \E h \in a.headers : h.value = v /\ h.name \in CredentialHeaderNames \cup {"x-api-key"}
    /\ Cardinality(a.headers) = 3 + Cardinality(ClientCodeHeader(KOTAK_CLIENT_CODE))

\* C23 as stated: _attempts returns one attempt per credential that is set, in
\* order, tagged with the name of the credential's authentication mode and
\* carrying only that credential.
C23_Original ==
    api.op = "_attempts"
        => /\ Len(ProbeList) = Len(PresentCredentials)
           /\ \A i \in 1..Len(ProbeList) :
                 /\ ProbeList[i].mode = PresentCredentials[i].mode
                 /\ CarriesOnly(ProbeList[i], PresentCredentials[i].value)

\* The tags _attempts gives to the attempts of a credential that is set.
ProbeTags(mode) ==
    CASE mode = "bearer" -> <<"bearer">>
      [] mode = "apikey" -> <<"apikey", "x-api-key">>
      [] OTHER -> <<"Internal-Key">>

RECURSIVE ExpectedProbes(_)
ExpectedProbes(creds) ==
    IF creds = <<>> THEN <<>>
    ELSE [i \in 1..Len(ProbeTags(Head(creds).mode)) |->
             [value |-> Head(creds).value, tag |-> ProbeTags(Head(creds).mode)[i]]]
         \o ExpectedProbes(Tail(creds))

\* C23 (amended): a call of _attempts changes nothing but its result, which holds,
\* in the order bearer, API key, internal key, one attempt tagged "bearer" for an
\* access token that is set, two tagged "apikey" and "x-api-key" for an API key,
\* one tagged "Internal-Key" for an internal key, none for an empty credential,
\* each carrying only its credential and the client code when one is configured.
C23_AttemptsPerCredential ==
    [][(api.op # "_attempts" /\ api'.op = "_attempts")
         => /\ LET got == api'.out.value.items
                   want == ExpectedProbes(PresentCredentials)
               IN  /\ Len(got) = Len(want)
                   /\ \A i \in 1..Len(got) :
                         /\ got[i].mode = want[i].tag
                         /\ CarriesOnly(got[i], want[i].value)
                         /\ \E h \in got[i].headers :
                               /\ h.value = want[i].value
                               /\ h.name = (IF want[i].tag = "bearer" THEN "authorization"
                                             ELSE want[i].tag)
            /\ UNCHANGED <<authVars, authResult, workerVars, storeVars, KOTAK_BASE_URL,
                           client, optPaths>>]_vars

\* _attempts has returned the two attempts of an API key among those of other
\* credentials, with a client code configured.
C23_Witness ==
    /\ api.op = "_attempts"
    /\ KOTAK_API_KEY # "" /\ KOTAK_ACCESS_TOKEN # "" /\ KOTAK_INTERNAL_KEY = ""
    /\ KOTAK_CLIENT_CODE # ""
    /\ Len(ProbeList) = 3

\* C24: with PATH_CLOSE_ALL empty, close_all_positions returns False, raises
\* nothing and sends no request, whether or not the mode's credential is set; it
\* returns True only when it has sent its request to the path and got a response
\* with a success status.
C24_CloseAllWithoutPath ==
    api.op = "close_all_positions"
        => /\ "PATH_CLOSE_ALL" \notin optPaths
                => api.out = Returns(0, PyBool(FALSE)) /\ api.sent = 0
           /\ api.out = Returns(0, PyBool(TRUE))
                => /\ "PATH_CLOSE_ALL" \in optPaths /\ api.sent = 1
                   /\ api.resp.kind = "http" /\ IsSuccess(api.resp.status)

\* close_all_positions has returned False with no path configured and the bearer
\* token not set.
C24_Witness ==
    /\ api.op = "close_all_positions"
    /\ "PATH_CLOSE_ALL" \notin optPaths /\ ~CurrentAuth.ok
    /\ api.out = Returns(0, PyBool(FALSE)) /\ api.sent = 0

\* C25: as long as no update_config call with enabled = True has returned, the
\* worker is disabled, the loop is at its start or asleep, and it has fetched no
\* positions and posted no order.
C25_StartsDisabled ==
    ~lastWrite.everOn
        => /\ ~enabled /\ ~iterEnabled
           /\ pc \in {"ready", "sleeping"}
           /\ iterFetches = 0 /\ iterOrders = <<>>
           /\ payload = NoPayload /\ positions = <<>>

\* An iteration has run to the end of its sleep after a write that left the worker
\* disabled, and no write has enabled it yet.
C25_Witness ==
    /\ ~lastWrite.everOn /\ lastWrite.written
    /\ pc = "sleeping" /\ slept = interval_sec /\ writeSeen = "none"

\* A step in which get_positions or place_order raises into the loop.
FailedReturn ==
    \/ \E resp \in FetchResponses : (~CallOutcome(resp).ok) /\ FetchReturn(resp)
    \/ \E resp \in PlaceResponses : (~CallOutcome(resp).ok) /\ PlaceReturn(resp)

\* C26: the step in which a fetch or an order fails ends the iteration and leaves
\* the orders posted so far as they are; in an iteration that ended in an error
\* the orders posted are those of the positions up to the one the loop stopped
\* at, none of a later one; and no order is posted while the loop sleeps.
C26_FailureEndsIteration ==
    /\ [][FailedReturn => /\ pc' = "sleeping" /\ iterErr'
                           /\ iterOrders' = iterOrders /\ idx' = idx]_vars
    /\ []((pc = "sleeping" /\ iterEnabled /\ iterErr)
             => Len(iterOrders) = Len(Ordered))
    /\ [][(pc = "sleeping" /\ ~IterStartStep) => iterOrders' = iterOrders]_vars

\* The order of the first of two positions has failed: it was posted, and the
\* second position, which has all it needs, got no order.
C26_Witness ==
    /\ pc = "sleeping" /\ iterEnabled /\ iterErr
    /\ Len(positions) = 2 /\ idx = 1
    /\ HasAll(positions[1]) /\ HasAll(positions[2])
    /\ Len(iterOrders) = 1

\* C27: every order the loop has submitted in the iteration is a SELL of order
\* type LIMIT whose quantity is greater than 0 and is the quantity of the position
\* it was derived from, positions of negative quantity included.
C27_PositiveLimitSell ==
    \A i \in 1..Len(iterOrders) :
        /\ i <= Len(Ordered)
        /\ {"transactionType", "orderType", "quantity"} \subseteq DOMAIN iterOrders[i]
        /\ iterOrders[i]["transactionType"] = Str("SELL")
        /\ iterOrders[i]["orderType"] = Str("LIMIT")
        /\ iterOrders[i]["quantity"] = PosQty(Ordered[i])
        /\ iterOrders[i]["quantity"].n > 0

\* A step of the loop: an iteration starts, a call of the loop returns or raises,
\* or a second passes.
LoopStep ==
    \/ IterStart
    \/ \E resp \in FetchResponses : FetchReturn(resp)
    \/ \E resp \in PlaceResponses : PlaceReturn(resp)
    \/ WorkerTick

\* C28: no step of the loop, failing or not, changes enabled or the threshold,
\* so after any number of failed iterations both are still what the last
\* update_config call that returned wrote (the defaults before any); an
\* update_config call whose threshold is accepted writes both fields, and one
\* whose threshold is rejected changes neither.
C28_ConfigOnlyByUpdate ==
    /\ [][LoopStep => (y' = y /\ enabled' = enabled)]_vars
    /\ []ConfigIsLastWrite
    /\ [][\A newEnabled \in BOOLEAN :
            /\ \A t \in Thresholds :
                  UpdateConfig(Num(t), newEnabled) => (y' = t /\ enabled' = newEnabled)
            /\ UpdateConfig(Str("abc"), newEnabled) => (y' = y /\ enabled' = enabled)]_vars

\* Auto-sell was enabled with threshold 0.375, an update_config call with a
\* rejected threshold and enabled = False followed, and an iteration has since
\* ended in an error: auto-sell is still enabled with 0.375.
C28_Witness ==
    /\ lastWrite.written /\ lastWrite.rejected
    /\ lastWrite.y = 375 /\ lastWrite.enabled
    /\ y = 375 /\ enabled
    /\ pc = "sleeping" /\ iterEnabled /\ iterErr /\ writeSeen = "none"

\* A step in which get_positions or place_order returns a value to the loop.
AnsweredReturn ==
    \/ \E resp \in FetchResponses : CallOutcome(resp).ok /\ FetchReturn(resp)
    \/ \E resp \in PlaceResponses : CallOutcome(resp).ok /\ PlaceReturn(resp)

\* C29: an iteration fetches positions at most once and submits nothing while
\* the fetch is in flight; its orders are those of the positions gone through so
\* far, in list order; and an order is submitted only in the step in which the
\* previous call of the loop (the fetch, or the order before it) returned, one
\* order per such step, so that the loop has at most one request in flight.
C29_OneCallAtATime ==
    /\ [](/\ iterFetches <= 1
          /\ pc = "fetching" => (iterFetches = 1 /\ iterOrders = <<>>)
          /\ iterOrders # <<>> => iterFetches = 1
          /\ pc = "placing" => (Len(iterOrders) = Len(Ordered) /\ HasAll(positions[idx]))
          /\ \A i \in 1..Len(iterOrders) :
                i <= Len(Ordered) /\ iterOrders[i]["symbol"] = PosSymbol(Ordered[i]))
    /\ [][iterOrders' # iterOrders =>
            \/ IterStartStep /\ iterOrders' = <<>>
            \/ /\ AnsweredReturn
               /\ Len(iterOrders') = Len(iterOrders) + 1
               /\ SubSeq(iterOrders', 1, Len(iterOrders)) = iterOrders
               /\ pc' = "placing" /\ callTicks' = 0]_vars

\* The second order of an iteration has been in flight for a second: it was
\* submitted when the first order's response came back.
C29_Witness ==
    /\ pc = "placing" /\ callTicks >= 1
    /\ iterFetches = 1
    /\ Len(iterOrders) = 2 /\ idx = 2

\* C30: a call of get_positions or get_orders, which return what response
\* handling gives them, returns a value when the brokerage answered with a success
\* status, whatever the body; and an HTTPException it ends in carries a
\* non-success status.
C30_RaisesOnlyOnNonSuccess ==
    (api.op \in {"get_positions", "get_orders"} /\ api.sent = 1 /\ api.resp.kind = "http")
        => /\ IsSuccess(api.resp.status) => api.out.ok
           /\ (~api.out.ok /\ api.out.exc = "HTTPException") => ~IsSuccess(api.out.status)

====
